---- MODULE Spec2Model ----
(***************************************************************************)
(* Model of src/main.py: lambda_handler(event, context) posts a fixed      *)
(* form to a fixed URL, reads the whole response body and stores it with   *)
(* put_object under a fixed bucket and key.                                *)
(*                                                                         *)
(* Several invocations run side by side.  An invocation is cut into steps  *)
(* at the points where the code blocks on the outside world: urlopen,      *)
(* response.read() and put_object.  Everything between two such points is  *)
(* local to the invocation and is part of the step that precedes it.       *)
(*                                                                         *)
(* Text is a sequence of one-character strings, bytes are a sequence of    *)
(* numbers 0..255, so that urlencode and encode("utf-8") are computed.     *)
(* An absent value (a local not yet bound, no exception, no result) is the *)
(* empty tuple and a present value x is <<x>>.                             *)
(***************************************************************************)
EXTENDS Integers, Sequences, FiniteSets, TLC

(* ---------------- bounds of the model ---------------- *)
NumInv == 2
MaxLen == 1

Invs == 1..NumInv
\* One byte that can open an XML document ("<") and one that no XML holds.
SampleBytes == {0, 60}
RECURSIVE SeqsUpTo(_, _)
SeqsUpTo(S, n) ==
    IF n = 0 THEN {<<>>}
    ELSE LET shorter == SeqsUpTo(S, n - 1)
         IN  shorter \cup {Append(s, x) : s \in {t \in shorter : Len(t) = n - 1}, x \in S}
Bodies == SeqsUpTo(SampleBytes, MaxLen)
\* The (event, context) pairs the runtime may pass in.
Inputs == {<<"{}", "ctx-cold">>, <<"scheduled", "ctx-warm">>}

Unset == <<>>
Some(x) == <<x>>
Get(o) == o[1]

(* ---------------- text and bytes ---------------- *)
\* Printable ASCII from code 32 on: Ascii[k] has code 31 + k (code 96 is
\* spelled out, the lexer has no string for it).
Ascii ==
    << " ", "!", "\"", "#", "$", "%", "&", "'", "(", ")", "*", "+", ",", "-", ".", "/",
       "0", "1", "2", "3", "4", "5", "6", "7", "8", "9", ":", ";", "<", "=", ">", "?",
       "@", "A", "B", "C", "D", "E", "F", "G", "H", "I", "J", "K", "L", "M", "N", "O",
       "P", "Q", "R", "S", "T", "U", "V", "W", "X", "Y", "Z", "[", "\\", "]", "^", "_",
       "grave", "a", "b", "c", "d", "e", "f", "g", "h", "i", "j", "k", "l", "m", "n", "o",
       "p", "q", "r", "s", "t", "u", "v", "w", "x", "y", "z", "{", "|", "}", "~" >>
Ord(c) == 31 + (CHOOSE k \in 1..Len(Ascii) : Ascii[k] = c)
HexDigits == <<"0", "1", "2", "3", "4", "5", "6", "7", "8", "9", "A", "B", "C", "D", "E", "F">>

RECURSIVE Flatten(_)
Flatten(ss) == IF ss = <<>> THEN <<>> ELSE Head(ss) \o Flatten(Tail(ss))
RECURSIVE Join(_, _)
Join(sep, ss) ==
    IF ss = <<>> THEN <<>>
    ELSE IF Len(ss) = 1 THEN Head(ss)
    ELSE Head(ss) \o sep \o Join(sep, Tail(ss))

\* urllib.parse.quote_plus on one character: unreserved characters stay, a
\* space becomes "+", anything else is percent-encoded.
AlwaysSafe ==
    { Ascii[k] : k \in 34..59 } \cup { Ascii[k] : k \in 66..91 }
        \cup { Ascii[k] : k \in 17..26 } \cup {"_", ".", "-", "~"}
quote_char(c) ==
    IF c \in AlwaysSafe THEN <<c>>
    ELSE IF c = " " THEN <<"+">>
    ELSE <<"%", HexDigits[(Ord(c) \div 16) + 1], HexDigits[(Ord(c) % 16) + 1]>>
quote_plus(s) == Flatten([k \in 1..Len(s) |-> quote_char(s[k])])

\* Variant: pairs with a blank value are left out of the query string.
urlencode_skip_blank(query) ==
    Join(<<"&">>, SelectSeq([k \in 1..Len(query) |->
                      IF query[k][2] = <<>> THEN <<>>
                      ELSE quote_plus(query[k][1]) \o <<"=">> \o quote_plus(query[k][2])],
                  LAMBDA part : part # <<>>))
\* urllib.parse.urlencode of a dict, in insertion order: k=v joined by "&".
urlencode(query) ==
    Join(<<"&">>, [k \in 1..Len(query) |->
                      quote_plus(query[k][1]) \o <<"=">> \o quote_plus(query[k][2])])
\* str.encode("utf-8") on ASCII text: one byte per character, its code.
encode_utf8(s) == [k \in 1..Len(s) |-> Ord(s[k])]

(* ---------------- the handler's literals ---------------- *)
url == "https://www.autocaris.cz/downloadcontent/cars.php"
post_data ==
    << << <<"n", "a", "m", "e">>, <<>> >>,
       << <<"p", "a", "s", "s", "w", "o", "r", "d">>, <<>> >>,
       << <<"i", "d">>, <<>> >> >>
data_encoded == encode_utf8(urlencode(post_data))
bucket_name == "autocaris-data"
s3_key == "inzeraty/inzeraty_usti.xml"

(* ---------------- urllib.request ---------------- *)
\* urllib.request.Request(url, data=...): no headers yet.
Request(u, d) == [full_url |-> u, data |-> Some(d), headers |-> {}]
\* Request.add_header: one value per header name, the last one wins.  Header
\* field names are case-insensitive on the wire; the name is kept as written.
add_header(r, key, val) ==
    [r EXCEPT !.headers = {h \in @ : h[1] # key} \cup {<<key, val>>}]
\* Request.get_method: POST exactly when the request carries data.
get_method(r) == IF r.data = Unset THEN "GET" ELSE "POST"
\* What urlopen(req) puts on the wire.
WireRequest(r) ==
    [method |-> get_method(r), url |-> r.full_url, headers |-> r.headers, body |-> r.data]
\* Variant: urlopen is given a timeout of ten seconds.
urlopen_timeout_set == Some(10)
\* urlopen(req) is called without a timeout: the socket default, none.
urlopen_timeout == Unset
\* How urlopen can raise: transport error, non-success status, and a timeout
\* only when one is set.
UrlopenFailures ==
    {"URLError", "HTTPError"} \cup (IF urlopen_timeout = Unset THEN {} ELSE {"timeout"})

(* ---------------- object storage ---------------- *)
Dest == <<bucket_name, s3_key>>
\* A neighbour of the destination, present before any invocation.
OtherLoc == <<bucket_name, "inzeraty/inzeraty_praha.xml">>
OtherObject == [Body |-> <<60>>, ContentType |-> "application/xml"]
PriorObject == [Body |-> <<60, 60>>, ContentType |-> "application/xml"]
\* Variant: the new body is appended to the body already stored.
put_object_append(st, args) ==
    [loc \in DOMAIN st \cup {<<args.Bucket, args.Key>>} |->
        IF loc = <<args.Bucket, args.Key>>
        THEN [Body |-> (IF loc \in DOMAIN st THEN st[loc].Body ELSE <<>>) \o args.Body,
              ContentType |-> args.ContentType]
        ELSE st[loc]]
\* s3.put_object: the object at (Bucket, Key) is replaced as a whole.
put_object(st, args) ==
    [loc \in DOMAIN st \cup {<<args.Bucket, args.Key>>} |->
        IF loc = <<args.Bucket, args.Key>>
        THEN [Body |-> args.Body, ContentType |-> args.ContentType]
        ELSE st[loc]]

VARIABLES
    pc,          \* where each invocation stands
    event,       \* the handler's parameters, never read
    context,
    req,         \* local req
    rbuf,        \* bytes response.read() has collected so far
    xml_data,    \* local xml_data
    sto,         \* state of the invocation's put_object call
    result,      \* what the invocation returned
    fault,       \* the exception that left the handler
    sent,        \* history: requests each invocation put on the wire
    upstream,    \* history: the body the endpoint answered each invocation with
    puts,        \* history: arguments of each invocation's put_object calls
    store,       \* the object store: (bucket, key) -> object
    store0,      \* history: the store before the first invocation
    writeOrder   \* history: invocations in the order their writes were applied

vars == <<pc, event, context, req, rbuf, xml_data, sto, result, fault,
          sent, upstream, puts, store, store0, writeOrder>>
locals == <<event, context, req, rbuf, xml_data>>
history == <<sent, upstream, puts, writeOrder>>

Init ==
    /\ pc = [i \in Invs |-> "idle"]
    /\ event = [i \in Invs |-> Unset]
    /\ context = [i \in Invs |-> Unset]
    /\ req = [i \in Invs |-> Unset]
    /\ rbuf = [i \in Invs |-> <<>>]
    /\ xml_data = [i \in Invs |-> Unset]
    /\ sto = [i \in Invs |-> "none"]
    /\ result = [i \in Invs |-> Unset]
    /\ fault = [i \in Invs |-> Unset]
    /\ sent = [i \in Invs |-> <<>>]
    /\ upstream = [i \in Invs |-> Unset]
    /\ puts = [i \in Invs |-> <<>>]
    /\ store \in {(OtherLoc :> OtherObject),
                  (OtherLoc :> OtherObject) @@ (Dest :> PriorObject)}
    /\ store0 = store
    /\ writeOrder = <<>>

\* The handler's frame is gone once it returns or raises.
DropLocals(i) ==
    /\ event' = [event EXCEPT ![i] = Unset]
    /\ context' = [context EXCEPT ![i] = Unset]
    /\ req' = [req EXCEPT ![i] = Unset]
    /\ rbuf' = [rbuf EXCEPT ![i] = <<>>]
    /\ xml_data' = [xml_data EXCEPT ![i] = Unset]

\* The exception exc propagates out of the handler: nothing catches it.
Raise(i, exc) ==
    /\ pc' = [pc EXCEPT ![i] = "fault"]
    /\ fault' = [fault EXCEPT ![i] = Some(exc)]
    /\ DropLocals(i)

\* lambda_handler(event, context) is entered: the request is built and
\* urlopen sends it, then blocks.  Invocations are numbered in the order in
\* which they start.
Invoke(i) ==
    /\ pc[i] = "idle"
    /\ \A j \in Invs : j < i => pc[j] # "idle"
    /\ \E in \in Inputs :
          /\ event' = [event EXCEPT ![i] = Some(in[1])]
          /\ context' = [context EXCEPT ![i] = Some(in[2])]
    /\ LET r == add_header(Request(url, data_encoded),
                           "Content-Type", "application/x-www-form-urlencoded")
       IN  /\ req' = [req EXCEPT ![i] = Some(r)]
           /\ sent' = [sent EXCEPT ![i] = Append(@, WireRequest(r))]
    /\ pc' = [pc EXCEPT ![i] = "urlopen"]
    /\ UNCHANGED <<rbuf, xml_data, sto, result, fault, upstream, puts,
                   store, store0, writeOrder>>

\* The endpoint answers with a success status and body B: urlopen returns the
\* response and response.read() begins.
UrlopenOK(i) ==
    /\ pc[i] = "urlopen"
    /\ \E B \in Bodies : upstream' = [upstream EXCEPT ![i] = Some(B)]
    /\ pc' = [pc EXCEPT ![i] = "read"]
    /\ UNCHANGED <<locals, sto, result, fault, sent, puts, store, store0, writeOrder>>

\* Variant: the error of urlopen is caught and an empty body is stored.
UrlopenFailSwallowed(i) ==
    /\ pc[i] = "urlopen"
    /\ xml_data' = [xml_data EXCEPT ![i] = Some(<<>>)]
    /\ puts' = [puts EXCEPT ![i] = Append(@, [Bucket |-> bucket_name, Key |-> s3_key,
                                               Body |-> <<>>,
                                               ContentType |-> "application/xml"])]
    /\ sto' = [sto EXCEPT ![i] = "pending"]
    /\ pc' = [pc EXCEPT ![i] = "put_object"]
    /\ UNCHANGED <<event, context, req, rbuf, result, fault, sent, upstream,
                   store, store0, writeOrder>>

\* urlopen raises.
UrlopenFail(i) ==
    /\ pc[i] = "urlopen"
    /\ \E exc \in UrlopenFailures : Raise(i, exc)
    /\ UNCHANGED <<sto, result, history, store, store0>>

\* response.read() takes the next byte off the connection.
ReadChunk(i) ==
    /\ pc[i] = "read"
    /\ Len(rbuf[i]) < Len(Get(upstream[i]))
    /\ rbuf' = [rbuf EXCEPT ![i] = Append(@, Get(upstream[i])[Len(@) + 1])]
    /\ UNCHANGED <<pc, event, context, req, xml_data, sto, result, fault,
                   history, store, store0>>

\* The connection breaks while response.read() runs.
ReadFail(i) ==
    /\ pc[i] = "read"
    /\ Raise(i, "IncompleteRead")
    /\ UNCHANGED <<sto, result, history, store, store0>>

\* Variant: read() returns whatever has arrived so far.
ReadCompleteEarly(i) == Len(rbuf[i]) <= Len(Get(upstream[i]))
\* response.read() without a size returns only at the end of the body.
ReadComplete(i) == Len(rbuf[i]) = Len(Get(upstream[i]))

NotNul(b) == b # 0
\* Variant: bytes that cannot occur in XML are dropped before the write.
PutObjectArgsSanitised(i, data) ==
    [Bucket |-> bucket_name, Key |-> s3_key, Body |-> SelectSeq(data, NotNul),
     ContentType |-> "application/xml"]
\* Variant: the key is taken from the event.
PutObjectArgsFromEvent(i, data) ==
    [Bucket |-> bucket_name, Key |-> Get(event[i]), Body |-> data,
     ContentType |-> "application/xml"]
\* Variant: xml_data is one module-level name shared by the invocations that
\* run in the same process, so the write takes whatever was bound to it last.
PutObjectArgsShared(i, data) ==
    [Bucket |-> bucket_name, Key |-> s3_key,
     Body |-> IF \E j \in Invs \ {i} : xml_data[j] # Unset
              THEN Get(xml_data[CHOOSE j \in Invs \ {i} : xml_data[j] # Unset])
              ELSE data,
     ContentType |-> "application/xml"]
\* The keyword arguments of the put_object call.
PutObjectArgs(i, data) ==
    [Bucket |-> bucket_name, Key |-> s3_key, Body |-> data,
     ContentType |-> "application/xml"]

\* read() returns, xml_data is bound, the response is closed, the client is
\* made and put_object is called, then blocks.
ReadReturn(i) ==
    /\ pc[i] = "read"
    /\ ReadComplete(i)
    /\ xml_data' = [xml_data EXCEPT ![i] = Some(rbuf[i])]
    /\ puts' = [puts EXCEPT ![i] = Append(@, PutObjectArgs(i, rbuf[i]))]
    /\ sto' = [sto EXCEPT ![i] = "pending"]
    /\ pc' = [pc EXCEPT ![i] = "put_object"]
    /\ UNCHANGED <<event, context, req, rbuf, result, fault, sent, upstream,
                   store, store0, writeOrder>>

\* The storage service applies the write of the pending call.
StorageApply(i) ==
    /\ pc[i] = "put_object"
    /\ sto[i] = "pending"
    /\ store' = put_object(store, puts[i][Len(puts[i])])
    /\ writeOrder' = Append(writeOrder, i)
    /\ sto' = [sto EXCEPT ![i] = "ok"]
    /\ UNCHANGED <<pc, locals, result, fault, sent, upstream, puts, store0>>

\* The value of the return statement.  The text is the f-string with bucket
\* and key put in; its accented letters are written without the accents.
SuccessResult ==
    [statusCode |-> 200,
     body |-> "XML uspesne ulozen do s3://" \o bucket_name \o "/" \o s3_key]

\* put_object returns and the handler returns its result.
PutObjectReturn(i) ==
    /\ pc[i] = "put_object"
    /\ sto[i] = "ok"
    /\ result' = [result EXCEPT ![i] = Some(SuccessResult)]
    /\ pc' = [pc EXCEPT ![i] = "done"]
    /\ DropLocals(i)
    /\ UNCHANGED <<sto, fault, history, store, store0>>

\* Variant: a refused write is tried again, up to three calls.
PutObjectFailRetry(i) ==
    /\ pc[i] = "put_object"
    /\ sto[i] = "pending"
    /\ IF Len(puts[i]) < 3
       THEN /\ puts' = [puts EXCEPT ![i] = Append(@, @[Len(@)])]
            /\ UNCHANGED <<pc, locals, sto, fault>>
       ELSE /\ sto' = [sto EXCEPT ![i] = "error"]
            /\ Raise(i, "ClientError")
            /\ UNCHANGED puts
    /\ UNCHANGED <<result, sent, upstream, writeOrder, store, store0>>

\* Variant: the error of put_object is caught and the result is returned all
\* the same.
PutObjectFailReported(i) ==
    /\ pc[i] = "put_object"
    /\ sto[i] = "pending"
    /\ sto' = [sto EXCEPT ![i] = "error"]
    /\ result' = [result EXCEPT ![i] = Some(SuccessResult)]
    /\ pc' = [pc EXCEPT ![i] = "done"]
    /\ DropLocals(i)
    /\ UNCHANGED <<fault, history, store, store0>>

\* The storage service refuses the write: put_object raises.
PutObjectFail(i) ==
    /\ pc[i] = "put_object"
    /\ sto[i] = "pending"
    /\ sto' = [sto EXCEPT ![i] = "error"]
    /\ Raise(i, "ClientError")
    /\ UNCHANGED <<result, history, store, store0>>

Next ==
    \E i \in Invs :
        \/ Invoke(i)
        \/ UrlopenOK(i)
        \/ UrlopenFail(i)
        \/ ReadChunk(i)
        \/ ReadFail(i)
        \/ ReadReturn(i)
        \/ StorageApply(i)
        \/ PutObjectReturn(i)
        \/ PutObjectFail(i)

Spec == Init /\ [][Next]_vars

\* One invocation at a time: the next one starts when the last one has ended.
InvokeInTurn(i) ==
    /\ \A j \in Invs : pc[j] \in {"idle", "done", "fault"}
    /\ Invoke(i)

NextInTurn ==
    \E i \in Invs :
        \/ InvokeInTurn(i)
        \/ UrlopenOK(i)
        \/ UrlopenFail(i)
        \/ ReadChunk(i)
        \/ ReadFail(i)
        \/ ReadReturn(i)
        \/ StorageApply(i)
        \/ PutObjectReturn(i)
        \/ PutObjectFail(i)

SeqSpec == Init /\ [][NextInTurn]_vars

\* What runs once an invocation has started: the handler's own code, and the
\* endpoint and the storage service, each of which answers or fails.
Step(i) ==
    \/ UrlopenOK(i)
    \/ UrlopenFail(i)
    \/ ReadChunk(i)
    \/ ReadFail(i)
    \/ ReadReturn(i)
    \/ StorageApply(i)
    \/ PutObjectReturn(i)
    \/ PutObjectFail(i)

\* Invocations in turn, each step of a started invocation taken in the end.
FairSpec == SeqSpec /\ \A i \in Invs : WF_vars(Step(i))

(* ---------------- the properties ---------------- *)
Range(s) == {s[k] : k \in 1..Len(s)}
Last(s) == s[Len(s)]
DestLit == <<"autocaris-data", "inzeraty/inzeraty_usti.xml">>
Stored(B) == [Body |-> B, ContentType |-> "application/xml"]

TypeOK ==
    /\ pc \in [Invs -> {"idle", "urlopen", "read", "put_object", "done", "fault"}]
    /\ sto \in [Invs -> {"none", "pending", "ok", "error"}]
    /\ \A i \in Invs : rbuf[i] \in Bodies
    /\ \A i \in Invs : upstream[i] # Unset => Get(upstream[i]) \in Bodies

\* C1 (pass-through): the Body handed to put_object by an invocation is
\* exactly the body the endpoint answered that invocation with, whatever its
\* bytes are, and the object stored by an applied write is that body.
C1_PassThrough ==
    /\ \A i \in Invs : \A k \in 1..Len(puts[i]) :
          upstream[i] # Unset /\ puts[i][k].Body = Get(upstream[i])
    /\ writeOrder # <<>> =>
          /\ DestLit \in DOMAIN store
          /\ upstream[Last(writeOrder)] # Unset
          /\ store[DestLit].Body = Get(upstream[Last(writeOrder)])
\* A body of one byte that no XML document holds has been stored as it came.
C1_Witness ==
    \E i \in Invs :
        /\ sto[i] = "ok"
        /\ upstream[i] = Some(<<0>>)
        /\ writeOrder # <<>> /\ Last(writeOrder) = i
        /\ store[DestLit].Body = <<0>>

\* C2 (upstream failure): an invocation whose upstream call failed (urlopen
\* raised, or the read broke) has ended as a fault carrying that error, has
\* made no put_object call, has returned no result and has written nothing;
\* when no invocation got further, the store is as it was before.
UpstreamFailed(i) ==
    \/ pc[i] \notin {"idle", "urlopen"} /\ upstream[i] = Unset
    \/ fault[i] = Some("IncompleteRead")
C2_UpstreamFailure ==
    /\ \A i \in Invs : UpstreamFailed(i) =>
          /\ pc[i] = "fault"
          /\ fault[i] \in {Some("URLError"), Some("HTTPError"), Some("IncompleteRead")}
          /\ puts[i] = <<>>
          /\ sto[i] = "none"
          /\ result[i] = Unset
          /\ i \notin Range(writeOrder)
    /\ (\A i \in Invs : pc[i] = "idle" \/ UpstreamFailed(i)) => store = store0
\* One invocation met a non-success status, the other a broken read, and the
\* object stored before is still there.
C2_Witness ==
    /\ fault[1] = Some("HTTPError")
    /\ fault[2] = Some("IncompleteRead")
    /\ DestLit \in DOMAIN store
    /\ store[DestLit] = PriorObject

\* C3 (storage failure, no retry): an invocation whose put_object call failed
\* has ended as a fault carrying the storage error and has returned no result;
\* no invocation calls put_object more than once or sends more than one
\* request.
C3_NoRetry ==
    /\ \A i \in Invs : Len(puts[i]) <= 1 /\ Len(sent[i]) <= 1
    /\ \A i \in Invs : sto[i] = "error" =>
          /\ pc[i] = "fault"
          /\ fault[i] = Some("ClientError")
          /\ result[i] = Unset
          /\ Len(puts[i]) = 1
          /\ i \notin Range(writeOrder)
\* A put_object call has failed.
C3_Witness ==
    \E i \in Invs : sto[i] = "error" /\ pc[i] = "fault" /\ Len(puts[i]) = 1

\* The bytes of name=&password=&id=
FormBody == <<110, 97, 109, 101, 61, 38,
              112, 97, 115, 115, 119, 111, 114, 100, 61, 38,
              105, 100, 61>>
\* C4 (request shape): an invocation that has started has sent exactly one
\* request, a POST to the fixed URL with the form content type and the body
\* name=&password=&id=, whatever event and context it was given; one that has
\* not started has sent none.
C4_RequestShape ==
    \A i \in Invs :
        /\ Len(sent[i]) = (IF pc[i] = "idle" THEN 0 ELSE 1)
        /\ \A k \in 1..Len(sent[i]) :
              /\ sent[i][k].method = "POST"
              /\ sent[i][k].url = "https://www.autocaris.cz/downloadcontent/cars.php"
              /\ <<"Content-Type", "application/x-www-form-urlencoded">> \in sent[i][k].headers
              /\ \A h \in sent[i][k].headers :
                    h[1] = "Content-Type" => h[2] = "application/x-www-form-urlencoded"
              /\ sent[i][k].body = Some(FormBody)
\* Two invocations given different events and contexts have both sent their
\* request.
C4_Witness ==
    /\ event[1] # Unset /\ event[2] # Unset
    /\ event[1] # event[2] /\ context[1] # context[2]
    /\ Len(sent[1]) = 1 /\ Len(sent[2]) = 1

\* C5 (fixed destination): every put_object call names bucket autocaris-data,
\* key inzeraty/inzeraty_usti.xml and content type application/xml; the store
\* holds no location it did not hold before other than that one, and every
\* other object is as it was.
C5_FixedDestination ==
    /\ \A i \in Invs : \A k \in 1..Len(puts[i]) :
          /\ puts[i][k].Bucket = "autocaris-data"
          /\ puts[i][k].Key = "inzeraty/inzeraty_usti.xml"
          /\ puts[i][k].ContentType = "application/xml"
    /\ DOMAIN store \subseteq DOMAIN store0 \cup {DestLit}
    /\ \A loc \in DOMAIN store0 \ {DestLit} : loc \in DOMAIN store /\ store[loc] = store0[loc]
    /\ writeOrder # <<>> =>
          DestLit \in DOMAIN store /\ store[DestLit].ContentType = "application/xml"
\* Two invocations with different events and different response bodies have
\* both had their write applied.
C5_Witness ==
    /\ sto[1] = "ok" /\ sto[2] = "ok"
    /\ pc[1] = "put_object" /\ pc[2] = "put_object"
    /\ event[1] # event[2]
    /\ upstream[1] # upstream[2]
    /\ Len(writeOrder) = 2

\* The store as it was before, with the body B at the destination.
ExpectedStore(B) ==
    [loc \in DOMAIN store0 \cup {DestLit} |->
        IF loc = DestLit THEN Stored(B) ELSE store0[loc]]
\* C6 (idempotent overwrite), invocations run one after the other: once an
\* invocation has returned and no later one has written, the store is the
\* store from before the first invocation with the destination holding that
\* invocation's response body and nothing else: no trace of an earlier body,
\* no further location; hence equal bodies leave equal stores.
C6_LastWriteWins ==
    \A j \in Invs :
        (pc[j] = "done" /\ writeOrder # <<>> /\ Last(writeOrder) = j) =>
            /\ upstream[j] # Unset
            /\ store = ExpectedStore(Get(upstream[j]))
\* Two invocations in succession, the first storing one byte and the second
\* an empty body, over an object that was stored before them.
C6_Witness ==
    /\ pc[1] = "done" /\ pc[2] = "done"
    /\ writeOrder = <<1, 2>>
    /\ upstream[1] = Some(<<60>>) /\ upstream[2] = Some(<<>>)
    /\ DestLit \in DOMAIN store0
    /\ store[DestLit].Body = <<>>

\* part occurs in msg, for the ways the message can be cut around it.
MsgHead == "XML uspesne ulozen do s3://"
Contains(msg, part) ==
    \E pre \in {MsgHead, MsgHead \o "autocaris-data" \o "/"},
       post \in {"", "/" \o "inzeraty/inzeraty_usti.xml"} :
        msg = pre \o part \o post
\* C7 (result shape): a result that has been returned has statusCode 200 and
\* a body text that contains the bucket and the key, and the invocation that
\* returned it has had its one put_object call applied to the store.
C7_ResultShape ==
    \A i \in Invs : result[i] # Unset =>
        /\ Get(result[i]).statusCode = 200
        /\ Contains(Get(result[i]).body, "autocaris-data")
        /\ Contains(Get(result[i]).body, "inzeraty/inzeraty_usti.xml")
        /\ pc[i] = "done"
        /\ fault[i] = Unset
        /\ sto[i] = "ok"
        /\ i \in Range(writeOrder)
\* One invocation has returned its result while the put_object call of the
\* other has failed.
C7_Witness ==
    \E i, j \in Invs :
        /\ result[i] # Unset /\ pc[i] = "done"
        /\ sto[j] = "error" /\ result[j] = Unset

\* C8 (concurrent invocations): each invocation binds and writes only the
\* body it was answered with; the destination holds either what it held
\* before or the whole body of one invocation that has written, namely the
\* one whose write was applied last.
C8_Isolation ==
    /\ \A i \in Invs :
          /\ xml_data[i] # Unset => upstream[i] # Unset /\ xml_data[i] = upstream[i]
          /\ \A k \in 1..Len(puts[i]) :
                upstream[i] # Unset /\ puts[i][k].Body = Get(upstream[i])
    /\ IF writeOrder = <<>>
       THEN store = store0
       ELSE /\ DestLit \in DOMAIN store
            /\ upstream[Last(writeOrder)] # Unset
            /\ store[DestLit] = Stored(Get(upstream[Last(writeOrder)]))
\* Invocation 1 started first and fetched a different body than invocation 2,
\* its write was applied after that of invocation 2, and its body is stored.
C8_Witness ==
    /\ writeOrder = <<2, 1>>
    /\ upstream[1] = Some(<<60>>) /\ upstream[2] = Some(<<0>>)
    /\ store[DestLit].Body = <<60>>

\* C9 (step order): within an invocation the request is sent before a
\* response is read, the put_object call is made only when the whole body has
\* been read, the write is applied only after the call and the result is
\* returned only after the write; the destination never holds part of a body.
C9_StepOrder ==
    /\ \A i \in Invs :
          /\ upstream[i] # Unset => Len(sent[i]) = 1
          /\ pc[i] \in {"idle", "urlopen", "read"} => puts[i] = <<>> /\ sto[i] = "none"
          /\ puts[i] # <<>> =>
                /\ upstream[i] # Unset
                /\ Len(puts[i][1].Body) = Len(Get(upstream[i]))
          /\ i \in Range(writeOrder) => puts[i] # <<>>
          /\ result[i] # Unset => i \in Range(writeOrder)
    /\ writeOrder # <<>> =>
          /\ DestLit \in DOMAIN store
          /\ upstream[Last(writeOrder)] # Unset
          /\ Len(store[DestLit].Body) = Len(Get(upstream[Last(writeOrder)]))
\* One invocation is in the middle of reading a body and has written nothing,
\* while another has stored a non-empty body and returned.
C9_Witness ==
    \E i, j \in Invs :
        /\ pc[i] = "read" /\ Len(rbuf[i]) < Len(Get(upstream[i])) /\ puts[i] = <<>>
        /\ pc[j] = "done" /\ Len(Get(upstream[j])) >= 1
        /\ Last(writeOrder) = j /\ store[DestLit].Body = Get(upstream[j])

\* An invocation has ended with exactly one of a result and a fault, and has
\* neither while it runs.
OneOutcome(i) ==
    /\ pc[i] = "done" <=> result[i] # Unset
    /\ pc[i] = "fault" <=> fault[i] # Unset
    /\ result[i] = Unset \/ fault[i] = Unset
\* An invocation waiting in urlopen leaves it only on an answer or an error of
\* the endpoint: there is no timeout.
LeavesUrlopenOnAnswer(i) ==
    (pc[i] = "urlopen" /\ pc'[i] # "urlopen") =>
        \/ pc'[i] = "read" /\ upstream'[i] # Unset
        \/ pc'[i] = "fault" /\ fault'[i] \in {Some("URLError"), Some("HTTPError")}
\* C10 (one path, termination), invocations run one after the other: when the
\* endpoint and the storage service always answer or fail, every invocation
\* that has started ends, as done with a result or as a fault, never both,
\* and stays ended; an invocation waiting for the endpoint goes on only when
\* the endpoint answers or fails.
C10_Termination ==
    /\ \A i \in Invs : (pc[i] # "idle") ~> (pc[i] \in {"done", "fault"})
    /\ [](\A i \in Invs : OneOutcome(i))
    /\ [][\A i \in Invs : LeavesUrlopenOnAnswer(i)]_vars
    /\ [][\A i \in Invs : pc[i] \in {"done", "fault"} => pc'[i] = pc[i]]_vars
\* Two invocations have ended, one with a result and one with a fault.
C10_Witness ==
    /\ pc[1] = "done" /\ result[1] # Unset
    /\ pc[2] = "fault" /\ fault[2] # Unset

====
